---- MODULE Spec2Model ----
(***************************************************************************)
(* Model of ytmusicapi's synced-lyrics core: the aggregating searcher      *)
(* (providers/searcher.py), its LRC parser and synced classifier, and the  *)
(* documents it builds (providers/base.py).                                *)
(*                                                                         *)
(* A Python str is a sequence of one-character strings, so that the two    *)
(* regular expressions, str.split, str.strip, str.ljust and int() are      *)
(* computed character by character.                                        *)
(***************************************************************************)
EXTENDS Integers, Sequences, FiniteSets, TLC

(***************************************************************************)
(* Bounds of the model.                                                    *)
(***************************************************************************)
\* longest provider name list handed to the constructor
MaxNames == 2
\* most lines of a raw text made of the lines of OrderCorpus
MaxLines == 3
\* most lines of a raw text made of the lines of FormatCorpus
MaxFormatLines == 2

(***************************************************************************)
(* Characters and strings.                                                 *)
(***************************************************************************)
Digit == {"0", "1", "2", "3", "4", "5", "6", "7", "8", "9"}

\* the characters str.strip() removes that occur in the modelled texts
Whitespace == {" ", "\t", "\r"}

Newline == "\n"

\* int() of one decimal digit
DigitValue(c) ==
    CASE c = "0" -> 0 [] c = "1" -> 1 [] c = "2" -> 2 [] c = "3" -> 3
      [] c = "4" -> 4 [] c = "5" -> 5 [] c = "6" -> 6 [] c = "7" -> 7
      [] c = "8" -> 8 [] c = "9" -> 9

\* int(s) for a string of decimal digits
RECURSIVE ToInt(_)
ToInt(s) ==
    IF s = <<>> THEN 0
    ELSE 10 * ToInt(SubSeq(s, 1, Len(s) - 1)) + DigitValue(s[Len(s)])

\* s[a:b] of Python, 0-based and end-exclusive, clipped to the string
Slice(s, a, b) == SubSeq(s, a + 1, IF b > Len(s) THEN Len(s) ELSE b)

\* s.ljust(width, fill)
RECURSIVE LJust(_, _, _)
LJust(s, width, fill) ==
    IF Len(s) >= width THEN s ELSE LJust(Append(s, fill), width, fill)

\* s.lstrip(), s.rstrip() and s.strip()
RECURSIVE LStrip(_)
LStrip(s) ==
    IF s # <<>> /\ s[1] \in Whitespace THEN LStrip(Tail(s)) ELSE s

RECURSIVE RStrip(_)
RStrip(s) ==
    IF s # <<>> /\ s[Len(s)] \in Whitespace
    THEN RStrip(SubSeq(s, 1, Len(s) - 1))
    ELSE s

Strip(s) == RStrip(LStrip(s))

\* s.split('\n'): the pieces between newlines; the empty string gives ['']
RECURSIVE SplitFrom(_, _, _)
SplitFrom(s, i, cur) ==
    IF i > Len(s) THEN <<cur>>
    ELSE IF s[i] = Newline THEN <<cur>> \o SplitFrom(s, i + 1, <<>>)
    ELSE SplitFrom(s, i + 1, Append(cur, s[i]))

Split(s) == SplitFrom(s, 1, <<>>)

\* '\n'.join(ls)
RECURSIVE Join(_)
Join(ls) ==
    IF ls = <<>> THEN <<>>
    ELSE IF Len(ls) = 1 THEN ls[1]
    ELSE ls[1] \o <<Newline>> \o Join(Tail(ls))

\* how many characters of s, from position i on (1-based), lie in set
RECURSIVE RunLength(_, _, _)
RunLength(s, i, set) ==
    IF i <= Len(s) /\ s[i] \in set THEN 1 + RunLength(s, i + 1, set) ELSE 0

(***************************************************************************)
(* The synced classifier: re.search(r'\[\d{2}:\d{2}', lrc).                *)
(***************************************************************************)
\* the pattern \[\d{2}:\d{2} matches s at position i
TagOpensAt(s, i) ==
    /\ i + 5 <= Len(s)
    /\ s[i] = "["
    /\ s[i + 1] \in Digit
    /\ s[i + 2] \in Digit
    /\ s[i + 3] = ":"
    /\ s[i + 4] \in Digit
    /\ s[i + 5] \in Digit

\* a classifier that looks for the tag at the start of the text only
SyncedAtStart(lrc) == TagOpensAt(lrc, 1)

_is_synced(lrc) == \E i \in 1..Len(lrc) : TagOpensAt(lrc, i)

(***************************************************************************)
(* The LRC parser.                                                         *)
(***************************************************************************)
NoMatch == [matched |-> FALSE, mins |-> <<>>, secs |-> <<>>, ms |-> <<>>,
            text |-> <<>>]

\* re.match(r'\[(\d{2}):(\d{2})[\.:]+(\d{2,3})\](.*)', line): the four
\* groups.  Separators and digits are disjoint and ']' is no digit, so the
\* greedy [\.:]+ takes the whole run of separators and \d{2,3} the whole
\* run of digits, and no backtracking finds another match.
LineMatch(line) ==
    IF ~ /\ Len(line) >= 7
         /\ line[1] = "["
         /\ line[2] \in Digit
         /\ line[3] \in Digit
         /\ line[4] = ":"
         /\ line[5] \in Digit
         /\ line[6] \in Digit
    THEN NoMatch
    ELSE LET nsep == RunLength(line, 7, {".", ":"})
             d    == 7 + nsep
             nfrac == RunLength(line, d, Digit)
             close == d + nfrac
         IN  IF /\ nsep >= 1
                /\ nfrac \in {2, 3}
                /\ close <= Len(line)
                /\ line[close] = "]"
             THEN [matched |-> TRUE,
                   mins |-> SubSeq(line, 2, 3),
                   secs |-> SubSeq(line, 5, 6),
                   ms   |-> SubSeq(line, d, close - 1),
                   text |-> SubSeq(line, close + 1, Len(line))]
             ELSE NoMatch

\* a LyricLine whose fraction is read as it stands, without ljust(3, '0')
MakeLyricLineUnpadded(m) ==
    LET ms == Slice(m.ms, 0, 3)
    IN  [timestamp |-> <<"[">> \o m.mins \o <<":">> \o m.secs \o <<".">>
                         \o Slice(ms, 0, 2) \o <<"]">>,
         text |-> Strip(m.text),
         milliseconds |-> ToInt(m.mins) * 60000 + ToInt(m.secs) * 1000
                            + ToInt(ms)]

\* a LyricLine whose timestamp shows minutes and seconds only
MakeLyricLineSecondsLabel(m) ==
    LET ms == Slice(LJust(m.ms, 3, "0"), 0, 3)
    IN  [timestamp |-> <<"[">> \o m.mins \o <<":">> \o m.secs \o <<"]">>,
         text |-> Strip(m.text),
         milliseconds |-> ToInt(m.mins) * 60000 + ToInt(m.secs) * 1000
                            + ToInt(ms)]

\* the LyricLine built from a match (searcher.py lines 121-130)
MakeLyricLine(m) ==
    LET ms == Slice(LJust(m.ms, 3, "0"), 0, 3)
    IN  [timestamp |-> <<"[">> \o m.mins \o <<":">> \o m.secs \o <<".">>
                         \o Slice(ms, 0, 2) \o <<"]">>,
         text |-> Strip(m.text),
         milliseconds |-> ToInt(m.mins) * 60000 + ToInt(m.secs) * 1000
                            + ToInt(ms)]

\* the loop of _parse_lrc: the lines list before it is sorted
RECURSIVE ParseLines(_)
ParseLines(ls) ==
    IF ls = <<>> THEN <<>>
    ELSE LET line == Strip(ls[1])
             m    == LineMatch(line)
         IN  IF line = <<>> \/ ~m.matched
             THEN ParseLines(Tail(ls))
             ELSE <<MakeLyricLine(m)>> \o ParseLines(Tail(ls))

\* an insertion that puts x before the elements of its own key
RECURSIVE InsertBeforeTies(_, _)
InsertBeforeTies(sorted, x) ==
    IF sorted = <<>> THEN <<x>>
    ELSE IF sorted[1].milliseconds < x.milliseconds
         THEN <<sorted[1]>> \o InsertBeforeTies(Tail(sorted), x)
         ELSE <<x>> \o sorted

\* one insertion of the stable sort: x goes after every element whose key
\* is not greater than its own
RECURSIVE InsertSorted(_, _)
InsertSorted(sorted, x) ==
    IF sorted = <<>> THEN <<x>>
    ELSE IF sorted[1].milliseconds <= x.milliseconds
         THEN <<sorted[1]>> \o InsertSorted(Tail(sorted), x)
         ELSE <<x>> \o sorted

\* sorted(lines, key=lambda x: x.milliseconds): Python's sort is stable
RECURSIVE SortedFrom(_, _)
SortedFrom(lines, acc) ==
    IF lines = <<>> THEN acc
    ELSE SortedFrom(Tail(lines), InsertSorted(acc, lines[1]))

\* a parser that returns the lines as they come
InInputOrder(lines) == lines

SortedByMilliseconds(lines) == SortedFrom(lines, <<>>)

_parse_lrc(lrc) == SortedByMilliseconds(ParseLines(Split(lrc)))

(***************************************************************************)
(* Documents (providers/base.py).                                          *)
(***************************************************************************)
\* SyncedLyrics(track=..., artist=..., lrc=..., lines=..., source=...)
SyncedLyrics(track, artist, lrc, lines, source) ==
    [track |-> track, artist |-> artist, lrc |-> lrc, lines |-> lines,
     source |-> source]

\* the result of a lookup that finds no line: Optional[LyricLine] is a
\* sequence of at most one line
NoLine == <<>>

\* a lookup that takes the lines before the time only
RECURSIVE LineAtLoopStrict(_, _, _, _)
LineAtLoopStrict(lines, i, milliseconds, current_line) ==
    IF i > Len(lines) THEN current_line
    ELSE IF lines[i].milliseconds < milliseconds
         THEN LineAtLoopStrict(lines, i + 1, milliseconds, <<lines[i]>>)
         ELSE current_line

\* the for loop of get_line_at from line i on
RECURSIVE LineAtLoop(_, _, _, _)
LineAtLoop(lines, i, milliseconds, current_line) ==
    IF i > Len(lines) THEN current_line
    ELSE IF lines[i].milliseconds <= milliseconds
         THEN LineAtLoop(lines, i + 1, milliseconds, <<lines[i]>>)
         ELSE current_line

\* SyncedLyrics.get_line_at(milliseconds) of a document with these lines
get_line_at(lines, milliseconds) == LineAtLoop(lines, 1, milliseconds, NoLine)

\* a rendering that keeps the lines without text
AllTexts(lines) == [i \in 1..Len(lines) |-> lines[i].text]

\* line.text for line in self.lines if line.text
RECURSIVE NonEmptyTexts(_)
NonEmptyTexts(lines) ==
    IF lines = <<>> THEN <<>>
    ELSE IF lines[1].text # <<>>
         THEN <<lines[1].text>> \o NonEmptyTexts(Tail(lines))
         ELSE NonEmptyTexts(Tail(lines))

\* SyncedLyrics.to_plain_text() of a document with these lines
to_plain_text(lines) == Join(NonEmptyTexts(lines))

(***************************************************************************)
(* The aggregating searcher (providers/searcher.py).                       *)
(***************************************************************************)
\* the keys of SyncedLyricsSearcher.PROVIDERS
PROVIDERS == {"lrclib", "netease", "megalobiz"}

DEFAULT_ORDER == <<"lrclib", "netease", "megalobiz">>

\* The constructor's argument: Optional[List[str]].  given = FALSE is None.
NoProviders == [given |-> FALSE, names |-> <<>>]

\* the position of a name in the default order
IndexOf(name) == CHOOSE i \in 1..Len(DEFAULT_ORDER) : DEFAULT_ORDER[i] = name

\* a loop that registers the one instance kept for each name
RECURSIVE InitLoopShared(_, _, _)
InitLoopShared(names, acc, created) ==
    IF names = <<>> THEN acc
    ELSE IF names[1] \in PROVIDERS
         THEN InitLoopShared(Tail(names),
                             Append(acc, [name |-> names[1],
                                          provider |-> IndexOf(names[1])]),
                             created)
         ELSE InitLoopShared(Tail(names), acc, created)

\* the loop of __init__: every known name appends (name, a new instance).
\* PROVIDERS[name]() makes a new object; an object is identified by the
\* order of its creation, created objects having been made before the call
RECURSIVE InitLoop(_, _, _)
InitLoop(names, acc, created) ==
    IF names = <<>> THEN acc
    ELSE IF names[1] \in PROVIDERS
         THEN InitLoop(Tail(names),
                       Append(acc, [name |-> names[1],
                                    provider |-> created + Len(acc) + 1]),
                       created)
         ELSE InitLoop(Tail(names), acc, created)

\* a constructor that walks the default order and keeps the names asked for
RECURSIVE KeepRequested(_, _, _, _)
KeepRequested(order, names, acc, created) ==
    IF order = <<>> THEN acc
    ELSE IF \E i \in 1..Len(names) : names[i] = order[1]
         THEN KeepRequested(Tail(order), names,
                            Append(acc, [name |-> order[1],
                                         provider |-> created + Len(acc) + 1]),
                            created)
         ELSE KeepRequested(Tail(order), names, acc, created)

InitFromDefaultOrder(providers, created) ==
    KeepRequested(DEFAULT_ORDER,
                  IF providers.given THEN providers.names ELSE DEFAULT_ORDER,
                  <<>>, created)

\* a constructor that registers each name once
RECURSIVE InitLoopOnce(_, _, _)
InitLoopOnce(names, acc, created) ==
    IF names = <<>> THEN acc
    ELSE IF /\ names[1] \in PROVIDERS
            /\ \A i \in 1..Len(acc) : acc[i].name # names[1]
         THEN InitLoopOnce(Tail(names),
                           Append(acc, [name |-> names[1],
                                        provider |-> created + Len(acc) + 1]),
                           created)
         ELSE InitLoopOnce(Tail(names), acc, created)

InitOnce(providers, created) ==
    InitLoopOnce(IF providers.given THEN providers.names ELSE DEFAULT_ORDER,
                 <<>>, created)

\* a constructor that takes the instances from a table kept for all searchers
InitShared(providers, created) ==
    InitLoopShared(IF providers.given THEN providers.names ELSE DEFAULT_ORDER,
                   <<>>, created)

\* SyncedLyricsSearcher(providers): the value of self._providers, created
\* provider objects having been made before
__init__(providers, created) ==
    InitLoop(IF providers.given THEN providers.names ELSE DEFAULT_ORDER, <<>>,
             created)

(***************************************************************************)
(* What provider.get_lyrics(track, artist) does when called: it returns    *)
(* None (kind "none"), returns a str (kind "str", lrc the text, possibly   *)
(* empty), or raises an Exception (kind "raise").                          *)
(***************************************************************************)
ReturnsNone == [kind |-> "none", lrc |-> <<>>]
Raises      == [kind |-> "raise", lrc |-> <<>>]
ReturnsStr(lrc) == [kind |-> "str", lrc |-> lrc]

Answers(texts) == {ReturnsNone, Raises} \cup {ReturnsStr(t) : t \in texts}

\* `if lrc:` -- None and the empty string are falsy
Truthy(answer) == answer.kind = "str" /\ answer.lrc # <<>>

(***************************************************************************)
(* The outcome of one pass through a loop body: go on with the next        *)
(* provider ("continue"), leave the method with a value ("return"), add a  *)
(* document to results ("append", in search_all), or let an exception      *)
(* escape the method ("raise": what Python does with an exception no       *)
(* except clause catches).                                                 *)
(***************************************************************************)
\* the values a call hands back
None           == [kind |-> "None", docs |-> <<>>]
Document(doc)  == [kind |-> "SyncedLyrics", docs |-> <<doc>>]
List(docs)     == [kind |-> "list", docs |-> docs]
Exception      == [kind |-> "exception", docs |-> <<>>]

Continue       == [ctl |-> "continue", value |-> None]
Return(value)  == [ctl |-> "return", value |-> value]
AppendDoc(doc) == [ctl |-> "append", value |-> Document(doc)]
Escapes        == [ctl |-> "raise", value |-> Exception]

\* a handler that lets the exception go on to the caller
ExceptReraises == Escapes

\* a handler that gives the search up
ExceptReturnsNone == Return(None)

\* `except Exception: continue` of search (lines 76-77)
SearchExcept == Continue

\* a gate that is closed to every plain text
RejectsEveryPlain(synced_only, is_synced) == ~is_synced

\* a gate that is open to every text
RejectsNothing(synced_only, is_synced) == FALSE

\* `if synced_only and not is_synced: continue` of search (lines 65-66):
\* whether the text is discarded
Rejects(synced_only, is_synced) == synced_only /\ ~is_synced

\* a document that is built and not returned
AcceptGoesOn(doc) == Continue

\* `return SyncedLyrics(...)` of search (lines 69-75)
Accept(doc) == Return(Document(doc))

\* the try statement of search (lines 61-77) for one provider
SearchBody(entry, answer, track, artist, synced_only) ==
    IF answer.kind = "raise" THEN SearchExcept
    ELSE IF ~Truthy(answer) THEN Continue
    ELSE LET lrc == answer.lrc
             is_synced == _is_synced(lrc)
         IN  IF Rejects(synced_only, is_synced) THEN Continue
             ELSE Accept(SyncedLyrics(
                             track, artist, lrc,
                             IF is_synced THEN _parse_lrc(lrc) ELSE <<>>,
                             entry.name))

\* the for loop of search from provider i on; queried lists the providers
\* whose get_lyrics has been called, in call order
RECURSIVE SearchLoop(_, _, _, _, _, _, _)
SearchLoop(provs, answers, i, queried, track, artist, synced_only) ==
    IF i > Len(provs) THEN [value |-> None, queried |-> queried]
    ELSE LET b == SearchBody(provs[i], answers[i], track, artist,
                             synced_only)
             q == Append(queried, i)
         IN  CASE b.ctl \in {"return", "raise"} ->
                    [value |-> b.value, queried |-> q]
               [] OTHER ->
                    SearchLoop(provs, answers, i + 1, q, track, artist,
                               synced_only)

search(provs, answers, track, artist, synced_only) ==
    SearchLoop(provs, answers, 1, <<>>, track, artist, synced_only)

\* a search_all that keeps the synced texts only
SearchAllBodySyncedOnly(entry, answer, track, artist) ==
    IF answer.kind = "raise" THEN Continue
    ELSE IF ~Truthy(answer) THEN Continue
    ELSE LET lrc == answer.lrc
         IN  IF ~_is_synced(lrc) THEN Continue
             ELSE AppendDoc(SyncedLyrics(track, artist, lrc, _parse_lrc(lrc),
                                         entry.name))

\* a search_all that hands the texts back without parsing them
SearchAllBodyUnparsed(entry, answer, track, artist) ==
    IF answer.kind = "raise" THEN Continue
    ELSE IF ~Truthy(answer) THEN Continue
    ELSE AppendDoc(SyncedLyrics(track, artist, answer.lrc, <<>>, entry.name))

\* the try statement of search_all (lines 89-101) for one provider
SearchAllBody(entry, answer, track, artist) ==
    IF answer.kind = "raise" THEN Continue
    ELSE IF ~Truthy(answer) THEN Continue
    ELSE LET lrc == answer.lrc
         IN  AppendDoc(SyncedLyrics(track, artist, lrc,
                                    IF _is_synced(lrc) THEN _parse_lrc(lrc)
                                    ELSE <<>>,
                                    entry.name))

RECURSIVE SearchAllLoop(_, _, _, _, _, _, _)
SearchAllLoop(provs, answers, i, queried, results, track, artist) ==
    IF i > Len(provs) THEN [value |-> List(results), queried |-> queried]
    ELSE LET b == SearchAllBody(provs[i], answers[i], track, artist)
             q == Append(queried, i)
         IN  CASE b.ctl = "append" ->
                    SearchAllLoop(provs, answers, i + 1, q,
                                  results \o b.value.docs, track, artist)
               [] b.ctl \in {"return", "raise"} ->
                    [value |-> b.value, queried |-> q]
               [] OTHER ->
                    SearchAllLoop(provs, answers, i + 1, q, results, track,
                                  artist)

search_all(provs, answers, track, artist) ==
    SearchAllLoop(provs, answers, 1, <<>>, <<>>, track, artist)

(***************************************************************************)
(* The inputs the model draws: constructor arguments, queries, and the     *)
(* raw texts a source answers with.                                        *)
(***************************************************************************)
BoundedSeq(S, n) == UNION {[1..k -> S] : k \in 0..n}

\* a name the constructor does not know
UnknownNames == {"genius"}

\* None, or any list of at most MaxNames known and unknown names
ProviderArgs ==
    {NoProviders} \cup
    {[given |-> TRUE, names |-> ns] :
        ns \in BoundedSeq(PROVIDERS \cup UnknownNames, MaxNames)}

\* the one-provider searchers of ParserSpec
ParserArgs == {[given |-> TRUE, names |-> <<"lrclib">>]}

\* the two-searcher configurations of OwnerSpec
OwnerArgs ==
    {NoProviders} \cup
    {[given |-> TRUE, names |-> ns] :
        ns \in BoundedSeq({"lrclib", "netease"}, MaxNames)}

Tracks == {"Yesterday"}
Artists == {"The Beatles"}

TagLine(mins, secs, sep, frac, text) ==
    <<"[">> \o mins \o <<":">> \o secs \o sep \o frac \o <<"]">> \o text

LineB == TagLine(<<"0", "0">>, <<"0", "2">>, <<".">>, <<"0", "0">>, <<"B">>)
LineA == TagLine(<<"0", "0">>, <<"0", "1">>, <<".">>, <<"0", "0">>, <<"A">>)
LineC == TagLine(<<"0", "0">>, <<"0", "1">>, <<".">>, <<"0", "0">>, <<"C">>)

\* lines whose offsets are out of order and tie, a line without a tag and
\* a blank line
OrderCorpus == {LineB, LineA, LineC, <<"L", "a">>, <<>>}

\* the forms of line the parser meets
FormatCorpus ==
    { LineB, LineA, LineC,
      \* ':' before the fraction, no text
      TagLine(<<"0", "0">>, <<"0", "1">>, <<":">>, <<"5", "0">>, <<>>),
      \* a 3-digit fraction
      TagLine(<<"0", "0">>, <<"0", "1">>, <<".">>, <<"5", "0", "1">>, <<"D">>),
      \* two separators
      TagLine(<<"0", "0">>, <<"0", "1">>, <<".", ".">>, <<"5", "0">>, <<"E">>),
      \* blanks around the tag and around the text
      <<" ">> \o TagLine(<<"0", "1">>, <<"0", "0">>, <<".">>, <<"0", "0">>,
                         <<" ", "F", " ">>),
      \* 60 seconds: the offset of [01:00.00]
      TagLine(<<"0", "0">>, <<"6", "0">>, <<".">>, <<"0", "0">>, <<"G">>),
      \* a 1-digit fraction: opens like a tag, is none
      TagLine(<<"0", "0">>, <<"0", "1">>, <<".">>, <<"5">>, <<"H">>),
      \* no tag
      <<"L", "a">>,
      \* a blank line
      <<>> }

\* the raw texts of ParserSpec: at most MaxLines lines of OrderCorpus, or at
\* most MaxFormatLines lines of FormatCorpus
RawTexts ==
    {Join(ls) : ls \in BoundedSeq(OrderCorpus, MaxLines)}
        \cup {Join(ls) : ls \in BoundedSeq(FormatCorpus, MaxFormatLines)}

\* the raw texts of Spec: the empty string, a plain text, and a synced text
\* whose lines are out of order and hold a tie
PlainText == <<"L", "a">>
SyncedText == Join(<<LineB, LineA, LineC>>)
SearcherTexts == {<<>>, PlainText, SyncedText}

\* the raw texts of OwnerSpec
OwnerTexts == {SyncedText}

\* the playback positions looked up: before every line, on a line, between
\* lines, after every line
Times == {0, 1000, 1700, 70000}

(***************************************************************************)
(* The state.                                                              *)
(***************************************************************************)
VARIABLES
    pc,          \* "new": no searcher yet; "idle"; "returned": a call ended
    requested,   \* the argument the searcher was constructed with
    _providers,  \* self._providers: the (name, provider instance) pairs
    call,        \* the call that ended last: its method and arguments
    answers,     \* what each provider's get_lyrics does in that call
    queried,     \* the providers whose get_lyrics that call did call
    returned,    \* what the call handed back
    doc_call,    \* the last method called on a returned document
    second,      \* another searcher: whether it is built, its _providers
    created      \* how many provider objects have been made

vars == <<pc, requested, _providers, call, answers, queried, returned,
          doc_call, second, created>>

NoCall == [op |-> "", track |-> "", artist |-> "", synced_only |-> FALSE]

\* no method of a document has been called
NoDocCall == [op |-> "", doc |-> 0, milliseconds |-> 0, line |-> NoLine,
              text |-> <<>>]

NotBuilt == [built |-> FALSE, _providers |-> <<>>]

Init ==
    /\ pc = "new"
    /\ requested = NoProviders
    /\ _providers = <<>>
    /\ call = NoCall
    /\ answers = <<>>
    /\ queried = <<>>
    /\ returned = None
    /\ doc_call = NoDocCall
    /\ second = NotBuilt
    /\ created = 0

\* SyncedLyricsSearcher(providers)
Construct(args) ==
    /\ pc = "new"
    /\ \E providers \in args :
          /\ requested' = providers
          /\ _providers' = __init__(providers, created)
    /\ created' = created + Len(_providers')
    /\ pc' = "idle"
    /\ UNCHANGED <<call, answers, queried, returned, doc_call, second>>

\* SyncedLyricsSearcher(providers) once more: a second searcher
ConstructOther(args) ==
    /\ ~second.built
    /\ \E providers \in args :
          second' = [built |-> TRUE,
                    _providers |-> __init__(providers, created)]
    /\ created' = created + Len(second'._providers)
    /\ UNCHANGED <<pc, requested, _providers, call, answers, queried,
                   returned, doc_call>>

\* searcher.search(track, artist, synced_only), the sources answering from
\* texts
Search(texts) ==
    /\ pc = "idle"
    /\ \E track \in Tracks, artist \in Artists, synced_only \in BOOLEAN,
          ans \in [1..Len(_providers) -> Answers(texts)] :
          LET r == search(_providers, ans, track, artist, synced_only)
          IN  /\ call' = [op |-> "search", track |-> track,
                          artist |-> artist, synced_only |-> synced_only]
              /\ answers' = ans
              /\ queried' = r.queried
              /\ returned' = r.value
    /\ pc' = "returned"
    /\ UNCHANGED <<requested, _providers, doc_call, second, created>>

\* searcher.search_all(track, artist)
SearchAll(texts) ==
    /\ pc = "idle"
    /\ \E track \in Tracks, artist \in Artists,
          ans \in [1..Len(_providers) -> Answers(texts)] :
          LET r == search_all(_providers, ans, track, artist)
          IN  /\ call' = [op |-> "search_all", track |-> track,
                          artist |-> artist, synced_only |-> FALSE]
              /\ answers' = ans
              /\ queried' = r.queried
              /\ returned' = r.value
    /\ pc' = "returned"
    /\ UNCHANGED <<requested, _providers, doc_call, second, created>>

\* document.get_line_at(milliseconds) on a document the call handed back
GetLineAt ==
    /\ pc = "returned"
    /\ \E d \in 1..Len(returned.docs), milliseconds \in Times :
          doc_call' = [op |-> "get_line_at", doc |-> d,
                       milliseconds |-> milliseconds,
                       line |-> get_line_at(returned.docs[d].lines,
                                            milliseconds),
                       text |-> <<>>]
    /\ UNCHANGED <<pc, requested, _providers, call, answers, queried,
                   returned, second, created>>

\* document.to_plain_text() on a document the call handed back
ToPlainText ==
    /\ pc = "returned"
    /\ \E d \in 1..Len(returned.docs) :
          doc_call' = [op |-> "to_plain_text", doc |-> d, milliseconds |-> 0,
                       line |-> NoLine,
                       text |-> to_plain_text(returned.docs[d].lines)]
    /\ UNCHANGED <<pc, requested, _providers, call, answers, queried,
                   returned, second, created>>

\* the caller has the value; the searcher is ready for the next call
Done ==
    /\ pc = "returned"
    /\ pc' = "idle"
    /\ call' = NoCall
    /\ answers' = <<>>
    /\ queried' = <<>>
    /\ returned' = None
    /\ doc_call' = NoDocCall
    /\ UNCHANGED <<requested, _providers, second, created>>

Next ==
    \/ Construct(ProviderArgs)
    \/ Search(SearcherTexts)
    \/ SearchAll(SearcherTexts)
    \/ Done

Spec == Init /\ [][Next]_vars

\* one-provider searchers whose source answers with any text of RawTexts,
\* and the methods of the documents they hand back
ParserNext ==
    \/ Construct(ParserArgs)
    \/ Search(RawTexts)
    \/ SearchAll(RawTexts)
    \/ GetLineAt
    \/ ToPlainText
    \/ Done

ParserSpec == Init /\ [][ParserNext]_vars

\* two searchers, built in either order, and the calls on the first
OwnerNext ==
    \/ Construct(OwnerArgs)
    \/ ConstructOther(OwnerArgs)
    \/ Search(OwnerTexts)
    \/ SearchAll(OwnerTexts)
    \/ Done

OwnerSpec == Init /\ [][OwnerNext]_vars

(***************************************************************************)
(* Properties of search and search_all, checked under Spec.               *)
(***************************************************************************)
SearchReturned == pc = "returned" /\ call.op = "search"
SearchAllReturned == pc = "returned" /\ call.op = "search_all"

\* the answer is a non-empty text
HasText(answer) == answer.kind = "str" /\ answer.lrc # <<>>

\* the answer is one search takes: a non-empty text, classified synced when
\* synced_only is set
Acceptable(answer, synced_only) ==
    HasText(answer) /\ (synced_only => _is_synced(answer.lrc))

\* the providers of the active list that search would take, given the answers
AcceptableSources ==
    {i \in 1..Len(_providers) : Acceptable(answers[i], call.synced_only)}

Least(S) == CHOOSE i \in S : \A j \in S : i <= j

\* the document built from provider i's answer
DocumentOf(i) ==
    [track |-> call.track, artist |-> call.artist, lrc |-> answers[i].lrc,
     lines |-> IF _is_synced(answers[i].lrc) THEN _parse_lrc(answers[i].lrc)
               ELSE <<>>,
     source |-> _providers[i].name]

\* C1: search returns the document built from the first provider, in
\* configured order, whose answer is acceptable (a non-empty text, synced
\* when synced_only), stamped with that provider's name, whatever the later
\* providers would have answered.
C1_FirstAcceptableWins ==
    (SearchReturned /\ AcceptableSources # {}) =>
        /\ returned.kind = "SyncedLyrics"
        /\ Len(returned.docs) = 1
        /\ returned.docs[1] = DocumentOf(Least(AcceptableSources))
        /\ returned.docs[1].source = _providers[Least(AcceptableSources)].name

\* a plain text of the first provider wins over the synced text of the second
C1_Witness ==
    /\ SearchReturned
    /\ ~call.synced_only
    /\ Len(_providers) >= 2
    /\ _providers[1].name # _providers[2].name
    /\ answers[1] = ReturnsStr(PlainText)
    /\ answers[2] = ReturnsStr(SyncedText)
    /\ returned = Document(DocumentOf(1))

\* C2: one search call queries the providers one at a time in list order:
\* each entry at most once, an entry only after every entry before it was
\* queried and gave nothing acceptable, and none after an accepted one.
C2_SequentialNoRetry ==
    SearchReturned =>
        /\ Len(queried) <= Len(_providers)
        /\ \A k \in 1..Len(queried) : queried[k] = k
        /\ \A k \in 1..Len(queried) :
              Acceptable(answers[queried[k]], call.synced_only)
                  => k = Len(queried)
        /\ returned.kind = "SyncedLyrics" =>
              /\ queried # <<>>
              /\ Acceptable(answers[queried[Len(queried)]], call.synced_only)

\* the first provider raises, the second is accepted, the third, whose
\* answer is acceptable as well, is not queried
C2_Witness ==
    /\ SearchReturned
    /\ Len(_providers) = 3
    /\ answers[1] = Raises
    /\ Acceptable(answers[2], call.synced_only)
    /\ Acceptable(answers[3], call.synced_only)
    /\ queried = <<1, 2>>
    /\ returned.kind = "SyncedLyrics"

\* the entries queried after entry k
QueriedAfter(k) == {queried[j] : j \in (k + 1)..Len(queried)}

\* C3: with synced_only set search never returns a text that is not
\* classified synced: a plain text is discarded and the next provider is
\* queried, and the result is None when no provider has a synced text.
C3_SyncedOnlyNeverPlain ==
    (SearchReturned /\ call.synced_only) =>
        /\ \A d \in 1..Len(returned.docs) : _is_synced(returned.docs[d].lrc)
        /\ \A k \in 1..Len(queried) :
              (HasText(answers[queried[k]])
                 /\ ~_is_synced(answers[queried[k]].lrc)
                 /\ queried[k] < Len(_providers))
                  => (queried[k] + 1) \in QueriedAfter(k)
        /\ (\A i \in 1..Len(_providers) :
               ~(HasText(answers[i]) /\ _is_synced(answers[i].lrc)))
              => returned = None

\* the first provider's plain text is discarded for the second's synced text
C3_Witness ==
    /\ SearchReturned
    /\ call.synced_only
    /\ Len(_providers) >= 2
    /\ answers[1] = ReturnsStr(PlainText)
    /\ answers[2] = ReturnsStr(SyncedText)
    /\ queried = <<1, 2>>
    /\ returned = Document(DocumentOf(2))

\* C4: search and search_all never raise, whatever the providers do; when
\* no provider has an acceptable answer (the active list may be empty)
\* search returns None and search_all the empty list.
C4_NeverRaises ==
    pc = "returned" =>
        /\ returned.kind # "exception"
        /\ (call.op = "search" /\ AcceptableSources = {}) => returned = None
        /\ (call.op = "search_all"
              /\ \A i \in 1..Len(_providers) : ~HasText(answers[i]))
              => returned = List(<<>>)

\* every provider of a searcher with several raises, and search returns None
C4_Witness ==
    /\ SearchReturned
    /\ Len(_providers) >= 2
    /\ \A i \in 1..Len(_providers) : answers[i] = Raises
    /\ queried = [i \in 1..Len(_providers) |-> i]
    /\ returned = None

\* the answers that differ from ans only in that providers that raise in
\* one return None in the other
RaiseOrNone == {ReturnsNone, Raises}

FailureVariants(ans) ==
    {[i \in 1..Len(ans) |->
         IF i \in F THEN CHOOSE o \in RaiseOrNone : o # ans[i] ELSE ans[i]] :
     F \in SUBSET {i \in 1..Len(ans) : ans[i] \in RaiseOrNone}}

\* C5: a provider that raises cannot be told from one that returns None:
\* the same call with any of the raising providers returning None instead,
\* or the other way round, returns the same value and queries the same
\* providers in the same order.
C5_FailureLooksLikeAbsence ==
    pc = "returned" =>
        \A other \in FailureVariants(answers) :
            /\ call.op = "search" =>
                  search(_providers, other, call.track, call.artist,
                         call.synced_only)
                      = [value |-> returned, queried |-> queried]
            /\ call.op = "search_all" =>
                  search_all(_providers, other, call.track, call.artist)
                      = [value |-> returned, queried |-> queried]

\* the first provider raises and the second one's text is returned
C5_Witness ==
    /\ SearchReturned
    /\ Len(_providers) >= 2
    /\ answers[1] = Raises
    /\ answers[2] = ReturnsStr(SyncedText)
    /\ returned = Document(DocumentOf(2))
    /\ Cardinality(FailureVariants(answers)) >= 2

\* the providers that answered with a non-empty text, in list order
TextSources ==
    SelectSeq([i \in 1..Len(_providers) |-> i],
              LAMBDA i : HasText(answers[i]))

\* C6: search_all queries every provider and returns one document for each
\* that answered a non-empty text, in list order, stamped with its name; a
\* text that is not synced gives a document with no lines; a provider that
\* returns nothing or raises adds nothing and stops nothing.
C6_SearchAllEverySource ==
    SearchAllReturned =>
        /\ queried = [i \in 1..Len(_providers) |-> i]
        /\ returned.kind = "list"
        /\ Len(returned.docs) = Len(TextSources)
        /\ \A k \in 1..Len(TextSources) :
              /\ returned.docs[k] = DocumentOf(TextSources[k])
              /\ ~_is_synced(returned.docs[k].lrc)
                    => returned.docs[k].lines = <<>>

\* a plain text, a failure and a synced text give two documents
C6_Witness ==
    /\ SearchAllReturned
    /\ Len(_providers) = 3
    /\ answers[1] = ReturnsStr(PlainText)
    /\ answers[2] = Raises
    /\ answers[3] = ReturnsStr(SyncedText)
    /\ Len(returned.docs) = 2
    /\ returned.docs[1].lines = <<>>
    /\ returned.docs[1].source = _providers[1].name
    /\ returned.docs[2].source = _providers[3].name

(***************************************************************************)
(* Properties of the constructor, checked under Spec.                      *)
(***************************************************************************)
ActiveNames == [i \in 1..Len(_providers) |-> _providers[i].name]

KnownName(name) == name \in {"lrclib", "netease", "megalobiz"}

\* C7: the active list holds the known names of the supplied list, each as
\* often as supplied and in the supplied order, and nothing else; with no
\* list supplied it is lrclib, netease, megalobiz.
C7_ActiveListIsKnownSubsequence ==
    pc # "new" =>
        IF requested.given
        THEN ActiveNames = SelectSeq(requested.names, KnownName)
        ELSE ActiveNames = <<"lrclib", "netease", "megalobiz">>

\* an unknown name before a known one
C7_Witness ==
    /\ pc # "new"
    /\ requested.given
    /\ requested.names = <<"genius", "netease">>
    /\ ActiveNames = <<"netease">>

NoRepeat(names) ==
    \A i, j \in 1..Len(names) : i # j => names[i] # names[j]

\* C8 as claimed: no name is at two positions of the active list.
C8_NamesUnique == NoRepeat(ActiveNames)

\* C8 amended: the names of the active list are unique exactly when the
\* supplied list repeats no known name (the default list repeats none).
C8_UniqueUnlessRepeated ==
    pc # "new" =>
        (NoRepeat(ActiveNames)
            <=> (requested.given
                    => NoRepeat(SelectSeq(requested.names, KnownName))))

\* a list of two different known names gives two different names
C8_Witness ==
    /\ pc # "new"
    /\ requested.given
    /\ requested.names = <<"netease", "lrclib">>
    /\ NoRepeat(ActiveNames)
    /\ ActiveNames = <<"netease", "lrclib">>

(***************************************************************************)
(* Properties of the parser, checked under ParserSpec on the documents     *)
(* search and search_all return.                                           *)
(***************************************************************************)
\* the lines of lines whose offset is ms, in the order of lines
WithOffset(lines, ms) == SelectSeq(lines, LAMBDA l : l.milliseconds = ms)

NonDecreasing(lines) ==
    \A k \in 1..(Len(lines) - 1) :
        lines[k].milliseconds <= lines[k + 1].milliseconds

\* sorted holds the lines of parsed, those of one offset in the order they
\* have in parsed
SameLinesTiesInOrder(sorted, parsed) ==
    /\ Len(sorted) = Len(parsed)
    /\ \A i \in 1..Len(parsed) :
          WithOffset(sorted, parsed[i].milliseconds)
              = WithOffset(parsed, parsed[i].milliseconds)

\* C9: the lines of every returned document are the lines parsed from its
\* raw text, stably sorted by offset: offsets never decrease along lines,
\* lines of equal offset keep the order of the raw text, and no input order
\* makes the call raise.
C9_LinesStablySorted ==
    pc = "returned" =>
        /\ returned.kind # "exception"
        /\ \A d \in 1..Len(returned.docs) :
              /\ NonDecreasing(returned.docs[d].lines)
              /\ SameLinesTiesInOrder(returned.docs[d].lines,
                                      ParseLines(Split(returned.docs[d].lrc)))

\* the text B (2 s), A (1 s), C (1 s) comes back as A, C, B
C9_Witness ==
    /\ pc = "returned"
    /\ returned.kind = "SyncedLyrics"
    /\ returned.docs[1].lrc = SyncedText
    /\ Len(returned.docs[1].lines) = 3
    /\ returned.docs[1].lines[1].text = <<"A">>
    /\ returned.docs[1].lines[2].text = <<"C">>
    /\ returned.docs[1].lines[3].text = <<"B">>
    /\ returned.docs[1].lines[1].milliseconds = 1000
    /\ returned.docs[1].lines[2].milliseconds = 1000
    /\ returned.docs[1].lines[3].milliseconds = 2000

Reversed(s) == [i \in 1..Len(s) |-> s[Len(s) + 1 - i]]

\* the raw text with its lines in reverse order
ReversedText(lrc) == Join(Reversed(Split(lrc)))

\* any two lines of one offset are the same line
TiesAreEqual(lines) ==
    \A i, j \in 1..Len(lines) :
        lines[i].milliseconds = lines[j].milliseconds => lines[i] = lines[j]

\* C10 as claimed: parsing the lines of a text in reverse order gives the
\* same sequence of lines as parsing them in their order.
C10_OrderIndependent ==
    pc = "returned" =>
        \A d \in 1..Len(returned.docs) :
            _is_synced(returned.docs[d].lrc) =>
                _parse_lrc(ReversedText(returned.docs[d].lrc))
                    = returned.docs[d].lines

\* C10 amended: when no two different lines of the text have the same
\* offset, parsing the lines in reverse order gives the same sequence.
C10_OrderIndependentWithoutTies ==
    pc = "returned" =>
        \A d \in 1..Len(returned.docs) :
            (_is_synced(returned.docs[d].lrc)
               /\ TiesAreEqual(returned.docs[d].lines)) =>
                _parse_lrc(ReversedText(returned.docs[d].lrc))
                    = returned.docs[d].lines

\* the text B (2 s), A (1 s), A (1 s) and its reverse both parse to A, A, B
C10_Witness ==
    /\ pc = "returned"
    /\ returned.kind = "SyncedLyrics"
    /\ returned.docs[1].lrc = Join(<<LineB, LineA, LineA>>)
    /\ ReversedText(returned.docs[1].lrc) = Join(<<LineA, LineA, LineB>>)
    /\ ReversedText(returned.docs[1].lrc) # returned.docs[1].lrc
    /\ Len(returned.docs[1].lines) = 3
    /\ returned.docs[1].lines[1].text = <<"A">>
    /\ returned.docs[1].lines[3].text = <<"B">>
    /\ _parse_lrc(ReversedText(returned.docs[1].lrc)) = returned.docs[1].lines

(***************************************************************************)
(* Properties of the documents' methods, checked under ParserSpec.         *)
(***************************************************************************)
Greatest(S) == CHOOSE i \in S : \A j \in S : j <= i

\* C11: on a document whose lines are sorted by offset, get_line_at(t)
\* returns the last line of lines whose offset is at most t, the last of the
\* lines tied at that offset; it returns none when there are no lines or t
\* is before the first offset, and the final line from the final offset on.
C11_LineAtLastNotExceeding ==
    doc_call.op = "get_line_at" =>
        LET lines == returned.docs[doc_call.doc].lines
            t     == doc_call.milliseconds
            upto  == {i \in 1..Len(lines) : lines[i].milliseconds <= t}
        IN  /\ NonDecreasing(lines)
            /\ upto = {} => doc_call.line = NoLine
            /\ upto # {} => doc_call.line = <<lines[Greatest(upto)]>>
            /\ lines = <<>> => doc_call.line = NoLine
            /\ (lines # <<>> /\ t < lines[1].milliseconds)
                  => doc_call.line = NoLine
            /\ (lines # <<>> /\ t >= lines[Len(lines)].milliseconds)
                  => doc_call.line = <<lines[Len(lines)]>>

\* of the lines A (1 s), C (1 s), B (2 s) the lookup at 1 s returns C
C11_Witness ==
    /\ doc_call.op = "get_line_at"
    /\ doc_call.milliseconds = 1000
    /\ Len(returned.docs[doc_call.doc].lines) = 3
    /\ returned.docs[doc_call.doc].lines[1].milliseconds = 1000
    /\ returned.docs[doc_call.doc].lines[2].milliseconds = 1000
    /\ returned.docs[doc_call.doc].lines[3].milliseconds = 2000
    /\ returned.docs[doc_call.doc].lines[1].text = <<"A">>
    /\ returned.docs[doc_call.doc].lines[2].text = <<"C">>
    /\ doc_call.line = <<returned.docs[doc_call.doc].lines[2]>>

(***************************************************************************)
(* Properties of the parser's lines, checked under ParserSpec.             *)
(***************************************************************************)
\* the lines of a raw text as the parser sees them: split and trimmed
TrimmedLines(lrc) == [i \in 1..Len(Split(lrc)) |-> Strip(Split(lrc)[i])]

\* the trimmed lines the parser accepts
AcceptedLines(lrc) ==
    {i \in 1..Len(TrimmedLines(lrc)) :
        LineMatch(TrimmedLines(lrc)[i]).matched}

\* a fraction right-padded with zeros to 3 digits: FF counts as FF0
PaddedFraction(frac) ==
    IF Len(frac) = 2 THEN ToInt(frac) * 10 ELSE ToInt(frac)

\* minutes*60000 + seconds*1000 + milliseconds of the tag of a line
TagOffset(line) ==
    LET m == LineMatch(line)
    IN  ToInt(m.mins) * 60000 + ToInt(m.secs) * 1000 + PaddedFraction(m.ms)

\* C12: the offset of every line the parser accepts is
\* minutes*60000 + seconds*1000 + milliseconds, the milliseconds being the
\* tag's fraction right-padded with zeros to 3 digits: each offset occurs in
\* the document's lines as often as among the tags of the accepted lines.
C12_OffsetFromTag ==
    \A d \in 1..Len(returned.docs) :
        LET doc      == returned.docs[d]
            trimmed  == TrimmedLines(doc.lrc)
            accepted == AcceptedLines(doc.lrc)
        IN  /\ Len(doc.lines) = Cardinality(accepted)
            /\ \A j \in 1..Len(doc.lines) :
                  Len(WithOffset(doc.lines, doc.lines[j].milliseconds))
                    = Cardinality({i \in accepted :
                          TagOffset(trimmed[i])
                            = doc.lines[j].milliseconds})

\* "[00:01:50]" and "[00:01.501]D" parse to the offsets 1500 and 1501
C12_Witness ==
    /\ Len(returned.docs) = 1
    /\ returned.docs[1].lrc
         = Join(<<TagLine(<<"0", "0">>, <<"0", "1">>, <<":">>,
                          <<"5", "0">>, <<>>),
                  TagLine(<<"0", "0">>, <<"0", "1">>, <<".">>,
                          <<"5", "0", "1">>, <<"D">>)>>)
    /\ Len(returned.docs[1].lines) = 2
    /\ returned.docs[1].lines[1].milliseconds = 1500
    /\ returned.docs[1].lines[2].milliseconds = 1501

\* C13 as stated: any two parsed lines with equal timestamp have equal
\* offsets.
C13_TimestampDeterminesOffset ==
    \A d \in 1..Len(returned.docs) :
        \A i, j \in 1..Len(returned.docs[d].lines) :
            returned.docs[d].lines[i].timestamp
                = returned.docs[d].lines[j].timestamp
            => returned.docs[d].lines[i].milliseconds
                = returned.docs[d].lines[j].milliseconds

\* C13: the timestamp shows hundredths and the offset keeps milliseconds, so
\* any two parsed lines with equal timestamp have offsets that agree in
\* everything but the last digit: they are equal after division by 10.
C13_TimestampDeterminesHundredths ==
    \A d \in 1..Len(returned.docs) :
        \A i, j \in 1..Len(returned.docs[d].lines) :
            returned.docs[d].lines[i].timestamp
                = returned.docs[d].lines[j].timestamp
            => returned.docs[d].lines[i].milliseconds \div 10
                = returned.docs[d].lines[j].milliseconds \div 10

\* two lines labelled [00:01.50], one at 1500 ms and one at 1501 ms
C13_Witness ==
    /\ Len(returned.docs) = 1
    /\ Len(returned.docs[1].lines) = 2
    /\ returned.docs[1].lines[1].timestamp
         = returned.docs[1].lines[2].timestamp
    /\ returned.docs[1].lines[1].milliseconds = 1500
    /\ returned.docs[1].lines[2].milliseconds = 1501

\* a trimmed line that begins with [MM:SS<sep>FFF]: two digits, ':', two
\* digits, a single '.' or ':', two or three digits, ']'
SingleSeparatorTag(line) ==
    /\ Len(line) >= 10
    /\ line[1] = "["
    /\ line[2] \in Digit
    /\ line[3] \in Digit
    /\ line[4] = ":"
    /\ line[5] \in Digit
    /\ line[6] \in Digit
    /\ line[7] \in {".", ":"}
    /\ line[8] \in Digit
    /\ line[9] \in Digit
    /\ \/ line[10] = "]"
       \/ /\ Len(line) >= 11
          /\ line[10] \in Digit
          /\ line[11] = "]"

\* C14 as stated: the parser produces one line for each trimmed input line
\* that begins with a tag [MM:SS<sep>FFF] with a single separator, and
\* nothing for every other line.
C14_OneLinePerSingleSeparatorTag ==
    \A d \in 1..Len(returned.docs) :
        LET trimmed == TrimmedLines(returned.docs[d].lrc)
        IN  /\ AcceptedLines(returned.docs[d].lrc)
                 = {i \in 1..Len(trimmed) : SingleSeparatorTag(trimmed[i])}
            /\ Len(returned.docs[d].lines)
                 = Cardinality({i \in 1..Len(trimmed) :
                                   SingleSeparatorTag(trimmed[i])})

(***************************************************************************)
(* The classifier, seen through search(synced_only=True), under ParserSpec.*)
(***************************************************************************)
\* some six characters of the text are '[', two digits, ':', two digits
ContainsTagOpening(lrc) ==
    \E i \in 1..(Len(lrc) - 5) :
        LET w == SubSeq(lrc, i, i + 5)
        IN  /\ w[1] = "["
            /\ {w[2], w[3], w[5], w[6]} \subseteq Digit
            /\ w[4] = ":"

\* C15: a text is classified synced exactly when it contains, anywhere,
\* '[', two digits, ':', two digits: search with synced_only returns a
\* document exactly when some provider answers with such a text, however
\* many lines the parser accepts of it, and a document from any call has
\* parsed lines only if its text is such a text.
C15_SyncedIffTagAnywhere ==
    /\ (SearchReturned /\ call.synced_only) =>
          (returned.kind = "SyncedLyrics"
              <=> \E i \in 1..Len(_providers) :
                     /\ HasText(answers[i])
                     /\ ContainsTagOpening(answers[i].lrc))
    /\ \A d \in 1..Len(returned.docs) :
          LET doc == returned.docs[d]
          IN  /\ ~ContainsTagOpening(doc.lrc) => doc.lines = <<>>
              /\ ContainsTagOpening(doc.lrc)
                    => Len(doc.lines)
                         = Cardinality(AcceptedLines(doc.lrc))

\* "[00:01.5]H" opens like a tag and parses to no line: it is returned as
\* synced
C15_Witness ==
    /\ SearchReturned
    /\ call.synced_only
    /\ returned.kind = "SyncedLyrics"
    /\ returned.docs[1].lrc
         = TagLine(<<"0", "0">>, <<"0", "1">>, <<".">>, <<"5">>, <<"H">>)
    /\ returned.docs[1].lines = <<>>

(***************************************************************************)
(* to_plain_text, checked under ParserSpec.                                *)
(***************************************************************************)
\* the lines of a document whose text is non-empty, in the order of lines
LinesWithText(lines) == SelectSeq(lines, LAMBDA l : l.text # <<>>)

\* C16: to_plain_text() is the texts of the lines whose text is non-empty,
\* in the order of lines, joined by single newlines (split at the newlines
\* it gives those texts back), the empty string when no line has text; the
\* call leaves the document as it was.
C16_PlainTextSkipsEmptyLines ==
    /\ [](doc_call.op = "to_plain_text" =>
            LET kept == LinesWithText(returned.docs[doc_call.doc].lines)
            IN  IF kept = <<>> THEN doc_call.text = <<>>
                ELSE Split(doc_call.text)
                        = [i \in 1..Len(kept) |-> kept[i].text])
    /\ [][doc_call'.op = "to_plain_text" => returned' = returned]_vars

\* of the lines "" (1.5 s) and "B" (2 s) the plain text is "B"
C16_Witness ==
    /\ doc_call.op = "to_plain_text"
    /\ Len(returned.docs[doc_call.doc].lines) = 2
    /\ returned.docs[doc_call.doc].lines[1].text = <<>>
    /\ returned.docs[doc_call.doc].lines[2].text = <<"B">>
    /\ doc_call.text = <<"B">>

(***************************************************************************)
(* Ownership of the source instances, checked under OwnerSpec.             *)
(***************************************************************************)
\* the source instances an active list holds
Instances(provs) == {provs[i].provider : i \in 1..Len(provs)}

\* no two entries of the list hold the same instance
OneInstancePerEntry(provs) ==
    \A i, j \in 1..Len(provs) :
        i # j => provs[i].provider # provs[j].provider

\* C17: no source instance is shared, within a searcher (a repeated name
\* gives two instances) or between two searchers, and a construction or a
\* call on one searcher leaves the other searcher's active list as it was.
C17_NoSharedInstance ==
    /\ [](/\ OneInstancePerEntry(_providers)
          /\ OneInstancePerEntry(second._providers)
          /\ Instances(_providers) \cap Instances(second._providers) = {})
    /\ [][/\ pc # "new" => _providers' = _providers
          /\ second.built => second' = second
          /\ (pc' # pc \/ call' # call \/ returned' # returned)
                => second' = second
          /\ second' # second => _providers' = _providers]_vars

\* two searchers built from ["lrclib", "lrclib"], the first one searched
C17_Witness ==
    /\ second.built
    /\ Len(_providers) = 2
    /\ _providers[1].name = "lrclib"
    /\ _providers[2].name = "lrclib"
    /\ Len(second._providers) = 2
    /\ second._providers[1].name = "lrclib"
    /\ second._providers[2].name = "lrclib"
    /\ SearchReturned
    /\ returned.kind = "SyncedLyrics"

(***************************************************************************)
(* search against search_all on the same answers, checked under Spec.      *)
(***************************************************************************)
\* the first document of docs, or None
FirstOf(docs) == IF docs = <<>> THEN None ELSE Document(docs[1])

\* the documents of docs whose raw text is classified synced
SyncedOf(docs) == SelectSeq(docs, LAMBDA doc : ContainsTagOpening(doc.lrc))

\* what search is to return, given the list search_all returns
FirstFor(docs, synced_only) ==
    IF synced_only THEN FirstOf(SyncedOf(docs)) ELSE FirstOf(docs)

\* C18: search agrees with search_all on the same answers: search returns
\* the first element of the list of search_all, or with synced_only its
\* first element whose text is classified synced, and None when there is
\* none, with equal track, artist, raw text, lines and source.
C18_SearchAgreesWithSearchAll ==
    /\ SearchReturned =>
          returned = FirstFor(search_all(_providers, answers, call.track,
                                         call.artist).value.docs,
                              call.synced_only)
    /\ SearchAllReturned =>
          \A synced_only \in BOOLEAN :
              search(_providers, answers, call.track, call.artist,
                     synced_only).value
                = FirstFor(returned.docs, synced_only)

\* a plain text, then a synced one: search with synced_only returns the
\* second element of the list of search_all
C18_Witness ==
    /\ SearchReturned
    /\ call.synced_only
    /\ Len(_providers) = 2
    /\ answers[1] = ReturnsStr(PlainText)
    /\ answers[2] = ReturnsStr(SyncedText)
    /\ returned.kind = "SyncedLyrics"
    /\ returned.docs[1].source = _providers[2].name
    /\ Len(returned.docs[1].lines) = 3

====
